---- MODULE Spec2Model ----
(***************************************************************************)
(* A model of the rewriting core of lsystems-core: the expression          *)
(* evaluator, the pattern matcher and the iteration engine of              *)
(* src/src/iteration.rs, and the weighted sampler of src/src/util.rs.      *)
(*                                                                         *)
(* Numbers: parameter values and weights are f64 in the source.  The model *)
(* uses integers, which f64 represents exactly in the modelled range; the  *)
(* Div and Pow arms of ArithmeticExpression::eval are left out because no  *)
(* modelled rule uses them.                                                *)
(*                                                                         *)
(* A panic (panic!, assert!, unwrap on None, index out of range) ends the  *)
(* run: the engine's pc becomes "panicked" and nothing more happens to it. *)
(***************************************************************************)
EXTENDS Integers, Sequences, FiniteSets, TLC

\* ------------------------------------------------------------------ bounds

\* Largest iteration depth set_iteration_depth is called with.
MaxDepth == 7

\* Seeds set_seed is called with are 0..MaxSeed (and the default seed).
MaxSeed == 2

\* Number of distinct outputs of the modelled random generator.
RngRange == 16

\* How often iterate() is called on one engine.
MaxIterateCalls == 2

\* Longest axiom of the context-sensitivity inputs.
MaxAxiomLen == 3

\* Largest parameter value of the parametric axioms A(v).
MaxParam == 7

\* Sampler inputs: number of weighted items, and largest single weight.
MaxItems == 4
MaxWeight == 3

\* Largest iteration depth of the two engines run side by side.
MaxPairDepth == 2

\* ------------------------------------------------------- program constants

\* StdRng::seed_from_u64(133742) in IterationEngine::new.
DefaultSeed == 133742

\* probability_suffix: p.unwrap_or(-1.0), the deterministic sentinel.
DeterministicSentinel == -1

\* ------------------------------------------------------------- expressions

NoAnnotation == "None"
CreatePatch == "CreatePatch"

\* An Environment is its parameter_map: a function from names to values;
\* EmptyEnv is Environment::new().
EmptyEnv == [ok |-> TRUE, parameter_map |-> <<>>]

has_parameter(env, param) == param \in DOMAIN env.parameter_map

\* define_parameter with the value of a bound name replaced
\* (HashMap::insert without the check).
define_parameter_unchecked(env, param, value) ==
    IF ~env.ok THEN env
    ELSE [ok |-> TRUE,
          parameter_map |->
              (param :> value) @@
              [q \in DOMAIN env.parameter_map \ {param} |->
                  env.parameter_map[q]]]

\* define_parameter panics on a name that is already bound (ok = FALSE
\* records the panic; a panicked environment stays panicked).
define_parameter(env, param, value) ==
    IF ~env.ok THEN env
    ELSE IF has_parameter(env, param)
         THEN [ok |-> FALSE, parameter_map |-> env.parameter_map]
         ELSE [ok |-> TRUE,
               parameter_map |-> (param :> value) @@ env.parameter_map]

\* Arithmetic expressions are tuples: <<"Const", n>>, <<"Param", p>>,
\* <<"Neg", e>>, <<"Add", l, r>>, <<"Sub", l, r>>, <<"Mul", l, r>>.
Const(n) == <<"Const", n>>
Param(p) == <<"Param", p>>
Neg(e) == <<"Neg", e>>
Add(l, r) == <<"Add", l, r>>
Sub(l, r) == <<"Sub", l, r>>
Mul(l, r) == <<"Mul", l, r>>

\* Whether ArithmeticExpression::eval panics: both operands of a binary
\* operator are always evaluated, so it panics iff some Param is unbound.
RECURSIVE ArithPanics(_, _)
ArithPanics(e, env) ==
    CASE e[1] = "Const" -> FALSE
      [] e[1] = "Param" -> ~has_parameter(env, e[2])
      [] e[1] = "Neg" -> ArithPanics(e[2], env)
      [] OTHER -> ArithPanics(e[2], env) \/ ArithPanics(e[3], env)

\* ArithmeticExpression::eval where it does not panic.
RECURSIVE ArithEval(_, _)
ArithEval(e, env) ==
    CASE e[1] = "Const" -> e[2]
      [] e[1] = "Param" -> env.parameter_map[e[2]]
      [] e[1] = "Neg" -> 0 - ArithEval(e[2], env)
      [] e[1] = "Add" -> ArithEval(e[2], env) + ArithEval(e[3], env)
      [] e[1] = "Sub" -> ArithEval(e[2], env) - ArithEval(e[3], env)
      [] e[1] = "Mul" -> ArithEval(e[2], env) * ArithEval(e[3], env)

\* Boolean expressions: <<"BConst", b>>, <<"Not", e>>, <<"And", l, r>>,
\* <<"Or", l, r>>, and the comparisons <<"Lth", l, r>> ... <<"Eq", l, r>>
\* over arithmetic operands.
BConst(b) == <<"BConst", b>>
Not(e) == <<"Not", e>>
And(l, r) == <<"And", l, r>>
Or(l, r) == <<"Or", l, r>>
Lth(l, r) == <<"Lth", l, r>>
Leq(l, r) == <<"Leq", l, r>>
Gth(l, r) == <<"Gth", l, r>>
Geq(l, r) == <<"Geq", l, r>>
Eq(l, r) == <<"Eq", l, r>>

BoolResult(b) == IF b THEN "true" ELSE "false"

\* Compare with Lth evaluated as <=.
CompareLthAsLeq(op, l, r, env) ==
    IF ArithPanics(l, env) \/ ArithPanics(r, env) THEN "panic"
    ELSE LET a == ArithEval(l, env)
             b == ArithEval(r, env)
         IN  CASE op = "Lth" -> BoolResult(a <= b)
               [] op = "Leq" -> BoolResult(a <= b)
               [] op = "Gth" -> BoolResult(a > b)
               [] op = "Geq" -> BoolResult(a >= b)
               [] op = "Eq" -> BoolResult(a = b)

\* A comparison evaluates both arithmetic operands, then compares.
Compare(op, l, r, env) ==
    IF ArithPanics(l, env) \/ ArithPanics(r, env) THEN "panic"
    ELSE LET a == ArithEval(l, env)
             b == ArithEval(r, env)
         IN  CASE op = "Lth" -> BoolResult(a < b)
               [] op = "Leq" -> BoolResult(a <= b)
               [] op = "Gth" -> BoolResult(a > b)
               [] op = "Geq" -> BoolResult(a >= b)
               [] op = "Eq" -> BoolResult(a = b)

\* BoolEval with both operands of And and Or evaluated before they are
\* combined (& and | for && and ||).
RECURSIVE BoolEvalBothOperands(_, _)
BoolEvalBothOperands(e, env) ==
    CASE e[1] = "BConst" -> BoolResult(e[2])
      [] e[1] = "Not" ->
           LET v == BoolEvalBothOperands(e[2], env)
           IN  IF v = "panic" THEN "panic" ELSE BoolResult(v = "false")
      [] e[1] = "And" ->
           LET v == BoolEvalBothOperands(e[2], env)
               w == BoolEvalBothOperands(e[3], env)
           IN  IF v = "panic" \/ w = "panic" THEN "panic"
               ELSE BoolResult(v = "true" /\ w = "true")
      [] e[1] = "Or" ->
           LET v == BoolEvalBothOperands(e[2], env)
               w == BoolEvalBothOperands(e[3], env)
           IN  IF v = "panic" \/ w = "panic" THEN "panic"
               ELSE BoolResult(v = "true" \/ w = "true")
      [] OTHER -> Compare(e[1], e[2], e[3], env)

\* BooleanExpression::eval: "true", "false" or "panic".  The source writes
\* And and Or with Rust's && and ||, which evaluate the right operand only
\* when the left one does not decide the result.
RECURSIVE BoolEval(_, _)
BoolEval(e, env) ==
    CASE e[1] = "BConst" -> BoolResult(e[2])
      [] e[1] = "Not" ->
           LET v == BoolEval(e[2], env)
           IN  IF v = "panic" THEN "panic" ELSE BoolResult(v = "false")
      [] e[1] = "And" ->
           LET v == BoolEval(e[2], env)
           IN  IF v = "true" THEN BoolEval(e[3], env) ELSE v
      [] e[1] = "Or" ->
           LET v == BoolEval(e[2], env)
           IN  IF v = "false" THEN BoolEval(e[3], env) ELSE v
      [] OTHER -> Compare(e[1], e[2], e[3], env)

\* ------------------------------------------------- modules and signatures

Module(id, values, ann) ==
    [identifier |-> id, parameter_values |-> values, annotation |-> ann]

ModuleSignature(id, params) == [identifier |-> id, parameters |-> params]

ModuleTemplate(id, exprs) ==
    [identifier |-> id, parameter_expressions |-> exprs]

\* Option<T> is a sequence of length 0 (None) or 1 (Some).
None == <<>>
Some(x) == <<x>>

ModulePattern(left, center, right, cond) ==
    [match_left |-> left, match_center |-> center,
     match_right |-> right, condition |-> cond]

Rule(pattern, right_side, probability) ==
    [pattern |-> pattern, right_side |-> right_side,
     probability |-> probability]

is_deterministic(rule) == rule.probability < 0

\* ModuleTemplate::instantiate: "panic" if an expression references an
\* unbound parameter, else the module.  The modelled templates carry no
\* annotation marker, so the instance has none.
InstantiatePanics(template, env) ==
    \E k \in DOMAIN template.parameter_expressions :
        ArithPanics(template.parameter_expressions[k], env)

instantiate(template, env) ==
    Module(template.identifier,
           [k \in DOMAIN template.parameter_expressions |->
               ArithEval(template.parameter_expressions[k], env)],
           NoAnnotation)

\* ------------------------------------------------------- pattern matching

ModuleContext(left, center, right) ==
    [left |-> left, center |-> center, right |-> right]

\* ExtractFrom with each name bound to its index i of the source (from 0)
\* instead of the module's value at that index.
RECURSIVE ExtractFromIndex(_, _, _, _)
ExtractFromIndex(signature, module, env, i) ==
    IF i > Len(signature.parameters) THEN env
    ELSE IF i > Len(module.parameter_values)
         THEN [ok |-> FALSE, parameter_map |-> env.parameter_map]
         ELSE ExtractFromIndex(signature, module,
                  define_parameter(env, signature.parameters[i], i - 1),
                  i + 1)

\* ModulePattern::extract_parameters: define the signature's names, in
\* order, as the module's values at the same index.  Reading an index the
\* module does not have panics.
RECURSIVE ExtractFrom(_, _, _, _)
ExtractFrom(signature, module, env, i) ==
    IF i > Len(signature.parameters) THEN env
    ELSE IF i > Len(module.parameter_values)
         THEN [ok |-> FALSE, parameter_map |-> env.parameter_map]
         ELSE ExtractFrom(signature, module,
                          define_parameter(env, signature.parameters[i],
                                           module.parameter_values[i]),
                          i + 1)

extract_parameters(signature, module, env) ==
    ExtractFrom(signature, module, env, 1)

parameter_count(x) ==
    IF "parameters" \in DOMAIN x THEN Len(x.parameters)
    ELSE Len(x.parameter_values)

\* MatchSide without the comparison of the identifiers.
MatchSideAnyIdentifier(match_side, side, env) ==
    IF match_side = None THEN [matched |-> TRUE, env |-> env]
    ELSE IF side = None THEN [matched |-> FALSE, env |-> env]
    ELSE IF parameter_count(match_side[1]) # parameter_count(side[1])
         THEN [matched |-> FALSE, env |-> env]
    ELSE [matched |-> TRUE,
          env |-> extract_parameters(match_side[1], side[1], env)]

\* MatchSide without the comparison of the parameter counts.
MatchSideAnyArity(match_side, side, env) ==
    IF match_side = None THEN [matched |-> TRUE, env |-> env]
    ELSE IF side = None THEN [matched |-> FALSE, env |-> env]
    ELSE IF match_side[1].identifier # side[1].identifier
         THEN [matched |-> FALSE, env |-> env]
    ELSE [matched |-> TRUE,
          env |-> extract_parameters(match_side[1], side[1], env)]

\* MatchSide with a missing neighbour unwrapped, which panics.
MatchSideUnwrapsMissing(match_side, side, env) ==
    IF match_side = None THEN [matched |-> TRUE, env |-> env]
    ELSE IF side = None
         THEN [matched |-> TRUE,
               env |-> [ok |-> FALSE, parameter_map |-> env.parameter_map]]
    ELSE IF match_side[1].identifier # side[1].identifier
         THEN [matched |-> FALSE, env |-> env]
    ELSE IF parameter_count(match_side[1]) # parameter_count(side[1])
         THEN [matched |-> FALSE, env |-> env]
    ELSE [matched |-> TRUE,
          env |-> extract_parameters(match_side[1], side[1], env)]

\* One side (left or right) of does_match: no match when the pattern asks
\* for a neighbour that is missing or differs in identifier or arity, else
\* the environment with the neighbour's parameters added.
MatchSide(match_side, side, env) ==
    IF match_side = None THEN [matched |-> TRUE, env |-> env]
    ELSE IF side = None THEN [matched |-> FALSE, env |-> env]
    ELSE IF match_side[1].identifier # side[1].identifier
         THEN [matched |-> FALSE, env |-> env]
    ELSE IF parameter_count(match_side[1]) # parameter_count(side[1])
         THEN [matched |-> FALSE, env |-> env]
    ELSE [matched |-> TRUE,
          env |-> extract_parameters(match_side[1], side[1], env)]

\* The guard's evaluation, the last line of does_match.
EvalCondition(condition, env) == BoolEval(condition, env)

\* ModulePattern::does_match: "true", "false" or "panic", with the checks in
\* the order of the source: center identifier, center arity, center
\* parameters, left side, right side, guard.
does_match(pattern, context) ==
    IF pattern.match_center.identifier # context.center.identifier
    THEN "false"
    ELSE IF parameter_count(pattern.match_center)
              # parameter_count(context.center)
    THEN "false"
    ELSE LET env1 == extract_parameters(pattern.match_center,
                                        context.center, EmptyEnv)
         IN  IF ~env1.ok THEN "panic"
             ELSE LET l == MatchSide(pattern.match_left, context.left, env1)
                  IN  IF ~l.matched THEN "false"
                      ELSE IF ~l.env.ok THEN "panic"
                      ELSE LET r == MatchSide(pattern.match_right,
                                              context.right, l.env)
                           IN  IF ~r.matched THEN "false"
                               ELSE IF ~r.env.ok THEN "panic"
                               ELSE EvalCondition(pattern.condition, r.env)

\* One side of bind: unwrap of a missing neighbour panics.
BindSide(match_side, side, env) ==
    IF match_side = None THEN env
    ELSE IF side = None
         THEN [ok |-> FALSE, parameter_map |-> env.parameter_map]
         ELSE extract_parameters(match_side[1], side[1], env)

\* bind with the center's parameters alone.
bindCenterOnly(pattern, context) ==
    extract_parameters(pattern.match_center, context.center, EmptyEnv)

\* ModulePattern::bind: left, then right, then center.
bind(pattern, context) ==
    extract_parameters(pattern.match_center, context.center,
        BindSide(pattern.match_right, context.right,
            BindSide(pattern.match_left, context.left, EmptyEnv)))

\* -------------------------------------------------------- weighted sampler

\* The running total after the first k weights.
RECURSIVE RunningTotal(_, _)
RunningTotal(weights, k) ==
    IF k = 0 THEN 0 ELSE RunningTotal(weights, k - 1) + weights[k]

\* The loop of WeightedChoice::new: each weight becomes the running total.
Cumulative(weights) ==
    [k \in 1..Len(weights) |-> RunningTotal(weights, k)]

TotalWeight(weights) == RunningTotal(weights, Len(weights))

\* Uniform::new(0.0, running_total) of rand (the version whose constructor
\* returns the distribution itself) panics unless 0.0 < running_total.
UniformNewPanics(low, high) == ~(low < high)

\* WeightedChoiceNewPanics with the check for no items only.
WeightedChoiceNewUnchecked(weights) == Len(weights) = 0

\* Whether WeightedChoice::new panics: no items, a total of 0, or a range
\* Uniform::new refuses.
WeightedChoiceNewPanics(weights) ==
    \/ Len(weights) = 0
    \/ TotalWeight(weights) = 0
    \/ UniformNewPanics(0, TotalWeight(weights))

\* The values weight_range.sample(rng) can return: [0, total), in the
\* model's unit.
UniformRange(total) == 0..(total - 1)

\* SearchStep with the comparison items[i].weight < sample_weight.
SearchStepStrict(items, sample_weight, st) ==
    LET i == st.idx + (st.modifier \div 2)
    IN  IF i >= Len(items)
        THEN [idx |-> st.idx, modifier |-> st.modifier, oob |-> TRUE]
        ELSE IF items[i + 1] < sample_weight
             THEN [idx |-> i, modifier |-> (st.modifier + 1) \div 2,
                   oob |-> FALSE]
             ELSE [idx |-> st.idx, modifier |-> st.modifier \div 2,
                   oob |-> FALSE]

\* One pass of the while loop of sample.  idx and modifier are the
\* source's (0-based) locals; items[i] of the source is items[i + 1] here.
\* oob records an index outside the list (a panic).
SearchStep(items, sample_weight, st) ==
    LET i == st.idx + (st.modifier \div 2)
    IN  IF i >= Len(items)
        THEN [idx |-> st.idx, modifier |-> st.modifier, oob |-> TRUE]
        ELSE IF items[i + 1] <= sample_weight
             THEN [idx |-> i, modifier |-> (st.modifier + 1) \div 2,
                   oob |-> FALSE]
             ELSE [idx |-> st.idx, modifier |-> st.modifier \div 2,
                   oob |-> FALSE]

\* SearchResult with items[idx] returned for items[idx + 1].
SearchResultAtIdx(items, st) ==
    IF st.oob \/ st.idx >= Len(items) THEN -1 ELSE st.idx

\* The index sample returns once the loop has ended: idx + 1, or -1 for a
\* panic (index out of range).
SearchResult(items, st) ==
    IF st.oob \/ st.idx + 1 >= Len(items) THEN -1 ELSE st.idx + 1

RECURSIVE Search(_, _, _)
Search(items, sample_weight, st) ==
    IF st.oob \/ st.modifier <= 1 THEN SearchResult(items, st)
    ELSE Search(items, sample_weight, SearchStep(items, sample_weight, st))

SearchStart(items) == [idx |-> 0, modifier |-> Len(items), oob |-> FALSE]

\* sample with the first item returned for a draw up to its weight
\* (sample_weight <= items[0].weight).
sampleFirstAtMost(items, sample_weight) ==
    IF sample_weight <= items[1] THEN 0
    ELSE Search(items, sample_weight, SearchStart(items))

\* WeightedChoice::sample for the draw sample_weight: the (0-based) index
\* of the returned item, or -1 for a panic.
sample(items, sample_weight) ==
    IF sample_weight < items[1] THEN 0
    ELSE Search(items, sample_weight, SearchStart(items))

\* -------------------------------------------------------- random generator

\* StdRng is modelled as a linear congruential generator over
\* 0..RngRange-1; draws counts the values taken from it.
seed_from_u64(seed) == [state |-> seed % RngRange, draws |-> 0]

RngAdvance(rng) ==
    [state |-> (5 * rng.state + 3) % RngRange, draws |-> rng.draws + 1]

\* weight_range.sample(rng) for the range [0, total): the generator's next
\* output scaled into the range.
UniformSample(total, rng) == (RngAdvance(rng).state * total) \div RngRange

\* ------------------------------------------------------------ parsed input

\* Shorthands for what the grammar builds.
Sig(id) == ModuleSignature(id, <<>>)
SigP(id, params) == ModuleSignature(id, params)
Tpl(id) == ModuleTemplate(id, <<>>)
TplP(id, exprs) == ModuleTemplate(id, exprs)
Mod(id) == Module(id, <<>>, NoAnnotation)
ModP(id, values) == Module(id, values, NoAnnotation)
Always == BConst(TRUE)

\* lsystem_rule() on the rule texts the model uses: pattern() gives the
\* signatures and the condition (Const(true) when omitted or "*"),
\* probability_suffix() the weight (the sentinel when omitted), and
\* template_string() the right-hand side.
ParseRule(text) ==
    CASE text = "A -> AB" ->
           Rule(ModulePattern(None, Sig("A"), None, Always),
                <<Tpl("A"), Tpl("B")>>, DeterministicSentinel)
      [] text = "B -> A" ->
           Rule(ModulePattern(None, Sig("B"), None, Always),
                <<Tpl("A")>>, DeterministicSentinel)
      [] text = "A -> C" ->
           Rule(ModulePattern(None, Sig("A"), None, Always),
                <<Tpl("C")>>, DeterministicSentinel)
      [] text = "A < B > C -> D" ->
           Rule(ModulePattern(Some(Sig("A")), Sig("B"), Some(Sig("C")),
                              Always),
                <<Tpl("D")>>, DeterministicSentinel)
      [] text = "A < B -> D" ->
           Rule(ModulePattern(Some(Sig("A")), Sig("B"), None, Always),
                <<Tpl("D")>>, DeterministicSentinel)
      [] text = "A > B -> D" ->
           Rule(ModulePattern(None, Sig("A"), Some(Sig("B")), Always),
                <<Tpl("D")>>, DeterministicSentinel)
      [] text = "A ->" ->
           Rule(ModulePattern(None, Sig("A"), None, Always),
                <<>>, DeterministicSentinel)
      [] text = "A(x) -> A(x+1)" ->
           Rule(ModulePattern(None, SigP("A", <<"x">>), None, Always),
                <<TplP("A", <<Add(Param("x"), Const(1))>>)>>,
                DeterministicSentinel)
      [] text = "A(x) : x < 5 -> A(x+1)" ->
           Rule(ModulePattern(None, SigP("A", <<"x">>), None,
                              Lth(Param("x"), Const(5))),
                <<TplP("A", <<Add(Param("x"), Const(1))>>)>>,
                DeterministicSentinel)
      [] text = "A(x) : * -> B(x)" ->
           Rule(ModulePattern(None, SigP("A", <<"x">>), None, Always),
                <<TplP("B", <<Param("x")>>)>>, DeterministicSentinel)
      [] text = "A : 1 -> B" ->
           Rule(ModulePattern(None, Sig("A"), None, Always),
                <<Tpl("B")>>, 1)
      [] text = "A : 3 -> C" ->
           Rule(ModulePattern(None, Sig("A"), None, Always),
                <<Tpl("C")>>, 3)
      [] text = "A : 0 -> D" ->
           Rule(ModulePattern(None, Sig("A"), None, Always),
                <<Tpl("D")>>, 0)
      [] text = "A : 0 -> C" ->
           Rule(ModulePattern(None, Sig("A"), None, Always),
                <<Tpl("C")>>, 0)
      [] text = "A(x,x) -> B(x)" ->
           Rule(ModulePattern(None, SigP("A", <<"x", "x">>), None, Always),
                <<TplP("B", <<Param("x")>>)>>, DeterministicSentinel)
      [] text = "A(x) < A(x) -> B(x)" ->
           Rule(ModulePattern(Some(SigP("A", <<"x">>)), SigP("A", <<"x">>),
                              None, Always),
                <<TplP("B", <<Param("x")>>)>>, DeterministicSentinel)
      [] text = "A(x) < B(y) > A(x) -> C(y)" ->
           Rule(ModulePattern(Some(SigP("A", <<"x">>)), SigP("B", <<"y">>),
                              Some(SigP("A", <<"x">>)), Always),
                <<TplP("C", <<Param("y")>>)>>, DeterministicSentinel)
      [] text = "A(x) < A(y) -> B(x+y)" ->
           Rule(ModulePattern(Some(SigP("A", <<"x">>)), SigP("A", <<"y">>),
                              None, Always),
                <<TplP("B", <<Add(Param("x"), Param("y"))>>)>>,
                DeterministicSentinel)
      [] text = "A(x) < A(x) > B -> C" ->
           Rule(ModulePattern(Some(SigP("A", <<"x">>)), SigP("A", <<"x">>),
                              Some(Sig("B")), Always),
                <<Tpl("C")>>, DeterministicSentinel)
      [] text = "B < A(x,x) -> C" ->
           Rule(ModulePattern(Some(Sig("B")), SigP("A", <<"x", "x">>),
                              None, Always),
                <<Tpl("C")>>, DeterministicSentinel)
      [] text = "A(x) : y < 1 -> B(x)" ->
           Rule(ModulePattern(None, SigP("A", <<"x">>), None,
                              Lth(Param("y"), Const(1))),
                <<TplP("B", <<Param("x")>>)>>, DeterministicSentinel)
      [] text = "A(x) -> B(y)" ->
           Rule(ModulePattern(None, SigP("A", <<"x">>), None, Always),
                <<TplP("B", <<Param("y")>>)>>, DeterministicSentinel)
      [] text = "A(x) -> B(x)C(x+y)" ->
           Rule(ModulePattern(None, SigP("A", <<"x">>), None, Always),
                <<TplP("B", <<Param("x")>>),
                  TplP("C", <<Add(Param("x"), Param("y"))>>)>>,
                DeterministicSentinel)
      [] text = "A(x) : x < 5 || y < 1 -> B(x)" ->
           Rule(ModulePattern(None, SigP("A", <<"x">>), None,
                              Or(Lth(Param("x"), Const(5)),
                                 Lth(Param("y"), Const(1)))),
                <<TplP("B", <<Param("x")>>)>>, DeterministicSentinel)
      [] text = "A(x) : y < 1 || x < 5 -> B(x)" ->
           Rule(ModulePattern(None, SigP("A", <<"x">>), None,
                              Or(Lth(Param("y"), Const(1)),
                                 Lth(Param("x"), Const(5)))),
                <<TplP("B", <<Param("x")>>)>>, DeterministicSentinel)
      [] text = "A(x) : x < 5 && y < 1 -> B(x)" ->
           Rule(ModulePattern(None, SigP("A", <<"x">>), None,
                              And(Lth(Param("x"), Const(5)),
                                  Lth(Param("y"), Const(1)))),
                <<TplP("B", <<Param("x")>>)>>, DeterministicSentinel)
      [] text = "A(x) : true || y < 1 -> B(x)" ->
           Rule(ModulePattern(None, SigP("A", <<"x">>), None,
                              Or(BConst(TRUE), Lth(Param("y"), Const(1)))),
                <<TplP("B", <<Param("x")>>)>>, DeterministicSentinel)
      [] text = "A(x) : false && y < 1 -> B(x)" ->
           Rule(ModulePattern(None, SigP("A", <<"x">>), None,
                              And(BConst(FALSE), Lth(Param("y"), Const(1)))),
                <<TplP("B", <<Param("x")>>)>>, DeterministicSentinel)
      [] text = "A(x) : y < 1 && false -> B(x)" ->
           Rule(ModulePattern(None, SigP("A", <<"x">>), None,
                              And(Lth(Param("y"), Const(1)), BConst(FALSE))),
                <<TplP("B", <<Param("x")>>)>>, DeterministicSentinel)

\* Rule lists over parameterless modules.
PlainRules ==
    { <<>>,
      <<"A -> AB">>,
      <<"B -> A">>,
      <<"A -> AB", "B -> A">>,
      <<"A : 1 -> B">>,
      <<"A : 1 -> B", "A : 3 -> C">>,
      <<"A : 1 -> B", "A -> C", "A -> AB">>,
      <<"A -> AB", "A : 1 -> B", "A -> C">>,
      <<"A : 3 -> C", "A -> C">>,
      <<"A : 0 -> D", "A : 0 -> C">>,
      <<"A : 0 -> D", "A : 1 -> B">>,
      <<"A : 1 -> B", "A : 0 -> D", "A : 3 -> C">>,
      <<"A < B -> D", "B -> A">>,
      <<"A > B -> D", "A -> C">>,
      <<"A > B -> D", "A : 0 -> C">>,
      <<"A ->">>,
      <<"A ->", "B -> A">> }

\* module_string() on the axiom texts "", "A", "B", "AB", "AA", "B~AA(1)".
PlainAxioms ==
    { <<>>,
      <<Mod("A")>>,
      <<Mod("B")>>,
      <<Mod("A"), Mod("B")>>,
      <<Mod("A"), Mod("A")>>,
      <<Mod("B"), Module("A", <<>>, CreatePatch), ModP("A", <<1>>)>> }

\* The context-sensitive rule, and its axioms: every string over A, B, C
\* up to MaxAxiomLen, and strings with an annotated or parametric module
\* around or in place of the B.
ContextRules == { <<"A < B > C -> D">> }

RECURSIVE StringsOver(_, _)
StringsOver(alphabet, n) ==
    IF n = 0 THEN { <<>> }
    ELSE LET shorter == StringsOver(alphabet, n - 1)
         IN  shorter \cup
             { Append(w, m) : w \in { v \in shorter : Len(v) = n - 1 },
                              m \in alphabet }

ContextAxioms ==
    StringsOver({Mod("A"), Mod("B"), Mod("C")}, MaxAxiomLen) \cup
    { <<Mod("A"), Mod("B"), Mod("C"), Mod("B"), Mod("C")>>,
      <<Mod("A"), Module("B", <<>>, CreatePatch), Mod("C")>>,
      <<ModP("A", <<1>>), Mod("B"), Mod("C")>>,
      <<Mod("A"), ModP("B", <<1>>), Mod("C")>>,
      <<Mod("A"), Mod("B"), ModP("C", <<2>>)>> }

\* The rules over A(x), and their axioms.
ParametricRules ==
    { <<"A(x) -> A(x+1)">>,
      <<"A(x) : x < 5 -> A(x+1)", "A(x) : * -> B(x)">>,
      <<"A(x) : * -> B(x)", "A(x) : x < 5 -> A(x+1)">> }

ParametricAxioms ==
    { <<ModP("A", <<v>>)>> : v \in 0..MaxParam } \cup
    { <<ModP("A", <<0>>), ModP("B", <<2>>), ModP("A", <<6>>)>>,
      <<ModP("A", <<4>>), Mod("A")>> }

\* Rule lists with a guard or a template that references y, which no
\* signature declares, alone or under && and ||, and their axioms.
UnboundRules ==
    { <<"A(x) : y < 1 -> B(x)">>,
      <<"A(x) -> B(y)">>,
      <<"A(x) -> B(x)C(x+y)">>,
      <<"A(x) : x < 5 -> A(x+1)", "A(x) -> B(y)">>,
      <<"A(x) : * -> B(x)", "A(x) : y < 1 -> B(x)">>,
      <<"A(x) : x < 5 || y < 1 -> B(x)">>,
      <<"A(x) : y < 1 || x < 5 -> B(x)">>,
      <<"A(x) : x < 5 && y < 1 -> B(x)">>,
      <<"A(x) : true || y < 1 -> B(x)">>,
      <<"A(x) : false && y < 1 -> B(x)">>,
      <<"A(x) : y < 1 && false -> B(x)">> }

UnboundAxioms ==
    { <<ModP("A", <<0>>)>>,
      <<ModP("A", <<MaxParam>>)>>,
      <<ModP("B", <<2>>), ModP("A", <<4>>)>>,
      <<Mod("A"), ModP("A", <<1, 2>>), ModP("B", <<3>>)>> }

\* Rule lists whose patterns declare a name twice (in one signature, or in
\* two of left, center and right), rule lists of the same shapes that do
\* not, and axioms whose modules agree or differ with the signatures in
\* identifier and parameter count.
ShapeRules ==
    { <<"A(x,x) -> B(x)">>,
      <<"A(x) < A(x) -> B(x)">>,
      <<"A(x) < B(y) > A(x) -> C(y)">>,
      <<"A(x) < A(y) -> B(x+y)">>,
      <<"B < A(x,x) -> C">>,
      <<"A(x) < A(x) > B -> C">>,
      <<"A(x) < A(y) -> B(x+y)", "A(x) -> A(x+1)">> }

ShapeAxioms ==
    { <<ModP("A", <<1, 2>>)>>,
      <<ModP("A", <<1>>), ModP("A", <<1>>)>>,
      <<ModP("A", <<1>>), ModP("A", <<2>>), ModP("A", <<3>>)>>,
      <<ModP("A", <<1>>), ModP("B", <<2>>), ModP("A", <<3>>)>>,
      <<ModP("A", <<1>>), Mod("B"), ModP("A", <<3>>)>>,
      <<ModP("A", <<1>>), ModP("B", <<2>>), Mod("A")>>,
      <<Mod("A"), ModP("A", <<1>>)>>,
      <<Mod("B"), ModP("A", <<1, 2>>)>>,
      <<Mod("C"), ModP("A", <<1, 2>>)>> }

\* parse() with a text the grammar rejects: unwrap_or(Vec::new()) leaves the
\* empty axiom with any of the rule lists, or the empty rule list with any
\* of the axioms.
FailedParses ==
    ({ <<>> } \X (PlainRules \cup ContextRules \cup ParametricRules
                    \cup UnboundRules \cup ShapeRules))
    \cup ((PlainAxioms \cup ParametricAxioms \cup UnboundAxioms
             \cup ShapeAxioms) \X { <<>> })

\* What LSystem::parse is called with, as (axiom, rules) after parsing.
Inputs ==
    (PlainAxioms \X PlainRules) \cup (ContextAxioms \X ContextRules)
        \cup (ParametricAxioms \X ParametricRules)
        \cup (UnboundAxioms \X UnboundRules)
        \cup (ShapeAxioms \X ShapeRules)
        \cup FailedParses

Seeds == (0..MaxSeed) \cup {DefaultSeed}

\* ------------------------------------------------------------------- state

\* The engines' fields, each a function over the engines that exist:
\*   axiom, module_string, rules, iteration_depth, rng: IterationEngine
\*   pc: where the engine is: "idle" (constructed), inside iterate() at the
\*       head of the generation loop ("generation") or of the position loop
\*       ("position"), "done" (iterate() returned) or "panicked"
\*   generation, position, new_module_string: the locals of iterate()
\*   calls: how often iterate() has been called
\* and one weighted sampler on its own:
\*   wc_pc: "off", "start", "built", "searching", "returned", "panicked"
\*   wc_weights: the weights WeightedChoice::new is given
\*   wc_items: the cumulative weights it leaves in items
\*   wc_draw: the value weight_range.sample returned
\*   wc_search: idx and modifier of sample's loop
\*   wc_result: the index of the item sample returned
VARIABLES axiom, module_string, rules, iteration_depth, rng, pc,
          generation, position, new_module_string, calls,
          wc_pc, wc_weights, wc_items, wc_draw, wc_search, wc_result

engineVars == <<axiom, module_string, rules, iteration_depth, rng, pc,
                generation, position, new_module_string, calls>>
samplerVars == <<wc_pc, wc_weights, wc_items, wc_draw, wc_search, wc_result>>
vars == <<engineVars, samplerVars>>

Engines == DOMAIN pc

\* ----------------------------------------------------------------- engine

\* IterationEngine::new for each engine of the set.
NewEngines(engines) ==
    /\ axiom = [e \in engines |-> <<>>]
    /\ module_string = [e \in engines |-> <<>>]
    /\ rules = [e \in engines |-> <<>>]
    /\ iteration_depth = [e \in engines |-> 0]
    /\ rng = [e \in engines |-> seed_from_u64(DefaultSeed)]
    /\ pc = [e \in engines |-> "idle"]
    /\ generation = [e \in engines |-> 0]
    /\ position = [e \in engines |-> 0]
    /\ new_module_string = [e \in engines |-> <<>>]
    /\ calls = [e \in engines |-> 0]

SamplerOff ==
    /\ wc_pc = "off"
    /\ wc_weights = <<>>
    /\ wc_items = <<>>
    /\ wc_draw = 0
    /\ wc_search = SearchStart(<<>>)
    /\ wc_result = -1

\* LSystem::parse: the axiom and the rule list are replaced.
Parse(e, input) ==
    /\ pc[e] = "idle"
    /\ axiom' = [axiom EXCEPT ![e] = input[1]]
    /\ rules' = [rules EXCEPT ![e] = input[2]]
    /\ UNCHANGED <<module_string, iteration_depth, rng, pc, generation,
                   position, new_module_string, calls, samplerVars>>

SetIterationDepth(e, depth) ==
    /\ pc[e] = "idle"
    /\ iteration_depth' = [iteration_depth EXCEPT ![e] = depth]
    /\ UNCHANGED <<axiom, module_string, rules, rng, pc, generation,
                   position, new_module_string, calls, samplerVars>>

SetSeed(e, seed) ==
    /\ pc[e] = "idle"
    /\ rng' = [rng EXCEPT ![e] = seed_from_u64(seed)]
    /\ UNCHANGED <<axiom, module_string, rules, iteration_depth, pc,
                   generation, position, new_module_string, calls,
                   samplerVars>>

\* iterate(), up to the generation loop: module_string = axiom.clone().
Iterate(e) ==
    /\ pc[e] \in {"idle", "done"}
    /\ calls[e] < MaxIterateCalls
    /\ module_string' = [module_string EXCEPT ![e] = axiom[e]]
    /\ generation' = [generation EXCEPT ![e] = 0]
    /\ calls' = [calls EXCEPT ![e] = @ + 1]
    /\ pc' = [pc EXCEPT ![e] = "generation"]
    /\ UNCHANGED <<axiom, rules, iteration_depth, rng, position,
                   new_module_string, samplerVars>>

\* BeginGeneration with the range 0..=iteration_depth.
BeginGenerationInclusive(e) ==
    /\ pc[e] = "generation"
    /\ generation[e] <= iteration_depth[e]
    /\ new_module_string' = [new_module_string EXCEPT ![e] = <<>>]
    /\ position' = [position EXCEPT ![e] = 0]
    /\ pc' = [pc EXCEPT ![e] = "position"]
    /\ UNCHANGED <<axiom, module_string, rules, iteration_depth, rng,
                   generation, calls, samplerVars>>

\* BeginGeneration with module_string.len() - 1 computed ahead of the
\* position loop: the subtraction underflows on the empty sequence.
BeginGenerationLastIndexFirst(e) ==
    /\ pc[e] = "generation"
    /\ generation[e] < iteration_depth[e]
    /\ new_module_string' = [new_module_string EXCEPT ![e] = <<>>]
    /\ position' = [position EXCEPT ![e] = 0]
    /\ pc' = [pc EXCEPT ![e] = IF Len(module_string[e]) - 1 < 0
                               THEN "panicked" ELSE "position"]
    /\ UNCHANGED <<axiom, module_string, rules, iteration_depth, rng,
                   generation, calls, samplerVars>>

\* for i in 0..iteration_depth: another generation starts with an empty
\* new_module_string.
BeginGeneration(e) ==
    /\ pc[e] = "generation"
    /\ generation[e] < iteration_depth[e]
    /\ new_module_string' = [new_module_string EXCEPT ![e] = <<>>]
    /\ position' = [position EXCEPT ![e] = 0]
    /\ pc' = [pc EXCEPT ![e] = "position"]
    /\ UNCHANGED <<axiom, module_string, rules, iteration_depth, rng,
                   generation, calls, samplerVars>>

\* The generation loop has run iteration_depth times: iterate() returns.
Return(e) ==
    /\ pc[e] = "generation"
    /\ generation[e] >= iteration_depth[e]
    /\ pc' = [pc EXCEPT ![e] = "done"]
    /\ UNCHANGED <<axiom, module_string, rules, iteration_depth, rng,
                   generation, position, new_module_string, calls,
                   samplerVars>>

\* The position loop is over: module_string = new_module_string.
EndGeneration(e) ==
    /\ pc[e] = "position"
    /\ position[e] >= Len(module_string[e])
    /\ module_string' = [module_string EXCEPT ![e] = new_module_string[e]]
    /\ generation' = [generation EXCEPT ![e] = @ + 1]
    /\ pc' = [pc EXCEPT ![e] = "generation"]
    /\ UNCHANGED <<axiom, rules, iteration_depth, rng, position,
                   new_module_string, calls, samplerVars>>

\* The context of position i (0-based) of the sequence ms: the module, its
\* left neighbour if i > 0, its right neighbour if i < len - 1.
BuildContext(ms, i) ==
    ModuleContext(IF i > 0 THEN Some(ms[i]) ELSE None,
                  ms[i + 1],
                  IF i < Len(ms) - 1 THEN Some(ms[i + 2]) ELSE None)

Matches(text, context) == does_match(ParseRule(text).pattern, context)

\* MatchingPanics with a panic of does_match taken as a non-match.
MatchingPanicsAsNoMatch(rs, context) == FALSE

\* MatchingPanics with the loop over the rules left at the first matching
\* deterministic rule.
MatchingPanicsUntilDeterministic(rs, context) ==
    \E k \in DOMAIN rs :
        /\ Matches(rs[k], context) = "panic"
        /\ \A j \in 1..(k - 1) :
              ~(/\ Matches(rs[j], context) = "true"
                /\ is_deterministic(ParseRule(rs[j])))

\* Whether the loop over the rules panics: does_match is called for every
\* rule of the list.
MatchingPanics(rs, context) ==
    \E k \in DOMAIN rs : Matches(rs[k], context) = "panic"

\* matching_rules: the rules whose pattern matches, in the list's order.
RECURSIVE MatchingRules(_, _)
MatchingRules(rs, context) ==
    IF rs = <<>> THEN <<>>
    ELSE IF Matches(Head(rs), context) = "true"
         THEN <<Head(rs)>> \o MatchingRules(Tail(rs), context)
         ELSE MatchingRules(Tail(rs), context)

\* deterministic_matches: the deterministic ones among them, in order.
RECURSIVE DeterministicMatches(_)
DeterministicMatches(matching) ==
    IF matching = <<>> THEN <<>>
    ELSE IF is_deterministic(ParseRule(Head(matching)))
         THEN <<Head(matching)>> \o DeterministicMatches(Tail(matching))
         ELSE DeterministicMatches(Tail(matching))

\* The Weighted items built from the matching rules: their probabilities.
RuleWeights(matching) ==
    [k \in DOMAIN matching |-> ParseRule(matching[k]).probability]

\* ChooseMatch with the first matching rule taken whenever a deterministic
\* one matches (matching_rules.first() for deterministic_matches.first()).
ChooseMatchFirstMatching(matching, gen) ==
    LET det == DeterministicMatches(matching)
        weights == RuleWeights(matching)
    IN  IF Len(det) # 0
        THEN [panic |-> FALSE, rule |-> Head(matching), rng |-> gen]
        ELSE IF WeightedChoiceNewPanics(weights)
        THEN [panic |-> TRUE, rule |-> "", rng |-> gen]
        ELSE LET k == sample(Cumulative(weights),
                             UniformSample(TotalWeight(weights), gen))
             IN  IF k < 0
                 THEN [panic |-> TRUE, rule |-> "", rng |-> RngAdvance(gen)]
                 ELSE [panic |-> FALSE, rule |-> matching[k + 1],
                       rng |-> RngAdvance(gen)]

\* ChooseMatch with a single matching probabilistic rule taken without a
\* draw.
ChooseMatchSingleUndrawn(matching, gen) ==
    LET det == DeterministicMatches(matching)
        weights == RuleWeights(matching)
    IN  IF Len(det) # 0
        THEN [panic |-> FALSE, rule |-> Head(det), rng |-> gen]
        ELSE IF Len(matching) = 1
        THEN [panic |-> FALSE, rule |-> Head(matching), rng |-> gen]
        ELSE IF WeightedChoiceNewPanics(weights)
        THEN [panic |-> TRUE, rule |-> "", rng |-> gen]
        ELSE LET k == sample(Cumulative(weights),
                             UniformSample(TotalWeight(weights), gen))
             IN  IF k < 0
                 THEN [panic |-> TRUE, rule |-> "", rng |-> RngAdvance(gen)]
                 ELSE [panic |-> FALSE, rule |-> matching[k + 1],
                       rng |-> RngAdvance(gen)]

\* chosen_match: the first deterministic match if there is one, else the
\* rule the weighted sampler draws with the engine's generator.  panic
\* records a panic of WeightedChoice::new or of sample; rng is the
\* generator afterwards.
ChooseMatch(matching, gen) ==
    LET det == DeterministicMatches(matching)
        weights == RuleWeights(matching)
    IN  IF Len(det) # 0
        THEN [panic |-> FALSE, rule |-> Head(det), rng |-> gen]
        ELSE IF WeightedChoiceNewPanics(weights)
        THEN [panic |-> TRUE, rule |-> "", rng |-> gen]
        ELSE LET k == sample(Cumulative(weights),
                             UniformSample(TotalWeight(weights), gen))
             IN  IF k < 0
                 THEN [panic |-> TRUE, rule |-> "", rng |-> RngAdvance(gen)]
                 ELSE [panic |-> FALSE, rule |-> matching[k + 1],
                       rng |-> RngAdvance(gen)]

\* Replacement with the templates' modules in reverse order.
ReplacementReversed(text, context) ==
    LET rule == ParseRule(text)
        env == bind(rule.pattern, context)
        n == Len(rule.right_side)
    IN  IF ~env.ok THEN [panic |-> TRUE, out |-> <<>>]
        ELSE IF \E k \in DOMAIN rule.right_side :
                    InstantiatePanics(rule.right_side[k], env)
        THEN [panic |-> TRUE, out |-> <<>>]
        ELSE [panic |-> FALSE,
              out |-> [k \in DOMAIN rule.right_side |->
                          instantiate(rule.right_side[n + 1 - k], env)]]

\* The right side of the chosen rule instantiated in the environment bind
\* gives: the modules, in template order, or a panic.
Replacement(text, context) ==
    LET rule == ParseRule(text)
        env == bind(rule.pattern, context)
    IN  IF ~env.ok THEN [panic |-> TRUE, out |-> <<>>]
        ELSE IF \E k \in DOMAIN rule.right_side :
                    InstantiatePanics(rule.right_side[k], env)
        THEN [panic |-> TRUE, out |-> <<>>]
        ELSE [panic |-> FALSE,
              out |-> [k \in DOMAIN rule.right_side |->
                          instantiate(rule.right_side[k], env)]]

\* Unmatched with the module rebuilt from identifier and values alone.
UnmatchedRebuilt(module) ==
    <<Module(module.identifier, module.parameter_values, NoAnnotation)>>

\* What is pushed when no rule matches: module.clone().
Unmatched(module) == <<module>>

\* The body of the position loop for position i of ms: what is appended to
\* new_module_string, the generator afterwards, or a panic.
Rewrite(ms, i, rs, gen) ==
    LET context == BuildContext(ms, i)
        matching == MatchingRules(rs, context)
    IN  IF MatchingPanics(rs, context)
        THEN [panic |-> TRUE, out |-> <<>>, rng |-> gen]
        ELSE IF Len(matching) = 0
        THEN [panic |-> FALSE, out |-> Unmatched(ms[i + 1]), rng |-> gen]
        ELSE LET chosen == ChooseMatch(matching, gen)
             IN  IF chosen.panic
                 THEN [panic |-> TRUE, out |-> <<>>, rng |-> chosen.rng]
                 ELSE LET rep == Replacement(chosen.rule, context)
                      IN  [panic |-> rep.panic, out |-> rep.out,
                           rng |-> chosen.rng]

\* RngSlot with one generator shared by all engines.
RngSlotShared(e) == 1

\* The generator an engine draws from: its own field rng.
RngSlot(e) == e

\* RewritePosition on a sequence rewritten in place: the modules before the
\* position are the ones already written for this generation.
RewritePositionInPlace(e) ==
    /\ pc[e] = "position"
    /\ position[e] < Len(module_string[e])
    /\ LET r == Rewrite(new_module_string[e] \o
                            SubSeq(module_string[e], position[e] + 1,
                                   Len(module_string[e])),
                        Len(new_module_string[e]), rules[e],
                        rng[RngSlot(e)])
       IN  /\ rng' = [rng EXCEPT ![RngSlot(e)] = r.rng]
           /\ IF r.panic
              THEN /\ pc' = [pc EXCEPT ![e] = "panicked"]
                   /\ UNCHANGED <<new_module_string, position>>
              ELSE /\ new_module_string' =
                          [new_module_string EXCEPT ![e] = @ \o r.out]
                   /\ position' = [position EXCEPT ![e] = @ + 1]
                   /\ UNCHANGED pc
    /\ UNCHANGED <<axiom, module_string, rules, iteration_depth, generation,
                   calls, samplerVars>>

\* One pass of the position loop.
RewritePosition(e) ==
    /\ pc[e] = "position"
    /\ position[e] < Len(module_string[e])
    /\ LET r == Rewrite(module_string[e], position[e], rules[e],
                        rng[RngSlot(e)])
       IN  /\ rng' = [rng EXCEPT ![RngSlot(e)] = r.rng]
           /\ IF r.panic
              THEN /\ pc' = [pc EXCEPT ![e] = "panicked"]
                   /\ UNCHANGED <<new_module_string, position>>
              ELSE /\ new_module_string' =
                          [new_module_string EXCEPT ![e] = @ \o r.out]
                   /\ position' = [position EXCEPT ![e] = @ + 1]
                   /\ UNCHANGED pc
    /\ UNCHANGED <<axiom, module_string, rules, iteration_depth, generation,
                   calls, samplerVars>>

\* ------------------------------------------------------------ one engine

Init ==
    /\ NewEngines({1})
    /\ SamplerOff

Next ==
    \/ \E e \in Engines, input \in Inputs : Parse(e, input)
    \/ \E e \in Engines, depth \in 0..MaxDepth : SetIterationDepth(e, depth)
    \/ \E e \in Engines, seed \in Seeds : SetSeed(e, seed)
    \/ \E e \in Engines : Iterate(e)
    \/ \E e \in Engines : BeginGeneration(e)
    \/ \E e \in Engines : RewritePosition(e)
    \/ \E e \in Engines : EndGeneration(e)
    \/ \E e \in Engines : Return(e)

Spec == Init /\ [][Next]_vars

\* ---------------------------------------------------- two engines, one input

\* Two engines after new(), parse(), set_iteration_depth() and set_seed()
\* with the same arguments.
InitPair ==
    /\ SamplerOff
    /\ \E input \in PlainAxioms \X PlainRules, depth \in 0..MaxPairDepth,
          seed \in Seeds :
        /\ axiom = [e \in {1, 2} |-> input[1]]
        /\ rules = [e \in {1, 2} |-> input[2]]
        /\ iteration_depth = [e \in {1, 2} |-> depth]
        /\ rng = [e \in {1, 2} |-> seed_from_u64(seed)]
        /\ module_string = [e \in {1, 2} |-> <<>>]
        /\ pc = [e \in {1, 2} |-> "idle"]
        /\ generation = [e \in {1, 2} |-> 0]
        /\ position = [e \in {1, 2} |-> 0]
        /\ new_module_string = [e \in {1, 2} |-> <<>>]
        /\ calls = [e \in {1, 2} |-> 0]

NextPair ==
    \/ \E e \in Engines : Iterate(e)
    \/ \E e \in Engines : BeginGeneration(e)
    \/ \E e \in Engines : RewritePosition(e)
    \/ \E e \in Engines : EndGeneration(e)
    \/ \E e \in Engines : Return(e)

SpecPair == InitPair /\ [][NextPair]_vars

\* ------------------------------------------------------ the sampler alone

WeightLists ==
    UNION { [1..n -> (-1)..MaxWeight] : n \in 0..MaxItems }

InitSampler ==
    /\ NewEngines({})
    /\ wc_pc = "start"
    /\ wc_weights \in WeightLists
    /\ wc_items = <<>>
    /\ wc_draw = 0
    /\ wc_search = SearchStart(<<>>)
    /\ wc_result = -1

\* WeightedChoice::new.
WcNew ==
    /\ wc_pc = "start"
    /\ IF WeightedChoiceNewPanics(wc_weights)
       THEN /\ wc_pc' = "panicked"
            /\ UNCHANGED wc_items
       ELSE /\ wc_pc' = "built"
            /\ wc_items' = Cumulative(wc_weights)
    /\ UNCHANGED <<engineVars, wc_weights, wc_draw, wc_search, wc_result>>

\* sample, up to the loop: the draw, and the early return of item 0.
WcSample ==
    /\ wc_pc = "built"
    /\ \E d \in UniformRange(wc_items[Len(wc_items)]) :
        /\ wc_draw' = d
        /\ IF d < wc_items[1]
           THEN /\ wc_pc' = "returned"
                /\ wc_result' = 0
                /\ UNCHANGED wc_search
           ELSE /\ wc_pc' = "searching"
                /\ wc_search' = SearchStart(wc_items)
                /\ UNCHANGED wc_result
    /\ UNCHANGED <<engineVars, wc_weights, wc_items>>

\* One pass of the loop of sample.
WcSearchStep ==
    /\ wc_pc = "searching"
    /\ wc_search.modifier > 1
    /\ wc_search' = SearchStep(wc_items, wc_draw, wc_search)
    /\ wc_pc' = IF wc_search'.oob THEN "panicked" ELSE "searching"
    /\ UNCHANGED <<engineVars, wc_weights, wc_items, wc_draw, wc_result>>

\* The loop has ended: sample returns items[idx + 1].
WcSearchEnd ==
    /\ wc_pc = "searching"
    /\ wc_search.modifier <= 1
    /\ wc_result' = SearchResult(wc_items, wc_search)
    /\ wc_pc' = IF wc_result' < 0 THEN "panicked" ELSE "returned"
    /\ UNCHANGED <<engineVars, wc_weights, wc_items, wc_draw, wc_search>>

NextSampler == WcNew \/ WcSample \/ WcSearchStep \/ WcSearchEnd

SpecSampler == InitSampler /\ [][NextSampler]_vars

\* One engine, or the sampler used on its own.
InitAny == Init \/ InitSampler

NextAny == Next \/ NextSampler

SpecAny == InitAny /\ [][NextAny]_vars

\* ================================================================= claims

\* A step of engine e that is one completed pass of the position loop.
RewriteStep(e) ==
    /\ pc[e] = "position"
    /\ position[e] < Len(module_string[e])
    /\ position'[e] = position[e] + 1

\* The context of the position engine e is at.
ContextAt(e) == BuildContext(module_string[e], position[e])

\* The indices of the rules of rs that match the context and are
\* deterministic (negative probability).
DeterministicIndices(rs, context) ==
    { k \in DOMAIN rs : /\ Matches(rs[k], context) = "true"
                        /\ ParseRule(rs[k]).probability < 0 }

ProbabilisticIndices(rs, context) ==
    { k \in DOMAIN rs : /\ Matches(rs[k], context) = "true"
                        /\ ParseRule(rs[k]).probability >= 0 }

Least(S) == CHOOSE k \in S : \A j \in S : k <= j

\* The right side of rule text instantiated for the context.
Instance(text, context) == Replacement(text, context).out

\* C1: at every position where a deterministic rule matches, the modules
\* appended are the right side of the first deterministic matching rule in
\* rule-definition order, whatever else matches and whatever the seed.
C1_FirstDeterministicWins ==
    [][\A e \in Engines :
        (RewriteStep(e) /\ DeterministicIndices(rules[e], ContextAt(e)) # {})
        => new_module_string'[e] = new_module_string[e] \o
              Instance(rules[e][Least(DeterministicIndices(rules[e],
                                                           ContextAt(e)))],
                       ContextAt(e))]_vars

\* C1 witness: a position has been rewritten where a probabilistic rule
\* defined first and two deterministic rules all matched, and the first
\* deterministic rule's right side (C) was appended.
C1_Witness ==
    \E e \in Engines :
        /\ pc[e] = "position"
        /\ position[e] = 1
        /\ rules[e] = <<"A : 1 -> B", "A -> C", "A -> AB">>
        /\ LET context == BuildContext(module_string[e], 0)
           IN  /\ DeterministicIndices(rules[e], context) = {2, 3}
               /\ ProbabilisticIndices(rules[e], context) = {1}
        /\ new_module_string[e] = <<Mod("C")>>

\* C2: two engines with the same axiom, rules, seed and depth hold equal
\* module sequences after the same number of iterate() calls.
C2_Determinism ==
    (/\ Engines = {1, 2}
     /\ axiom[1] = axiom[2]
     /\ rules[1] = rules[2]
     /\ iteration_depth[1] = iteration_depth[2]
     /\ pc[1] = "done"
     /\ pc[2] = "done"
     /\ calls[1] = calls[2])
    => module_string[1] = module_string[2]

\* C2 witness: both engines are done after one call each, a probabilistic
\* rule was drawn in each, and the sequences are equal.
C2_Witness ==
    /\ Engines = {1, 2}
    /\ pc[1] = "done"
    /\ pc[2] = "done"
    /\ calls[1] = 1
    /\ calls[2] = 1
    /\ rng[1].draws > 1
    /\ rng[2].draws > 1
    /\ module_string[1] = module_string[2]
    /\ module_string[1] # axiom[1]

\* C3: with depth 0, iterate() ends with module_string equal to the axiom
\* and has drawn nothing from the random source.
C3_DepthZeroIdentity ==
    \A e \in Engines :
        (pc[e] = "done" /\ iteration_depth[e] = 0)
        => (module_string[e] = axiom[e] /\ rng[e].draws = 0)

\* C3 witness: iterate() returned at depth 0 on an axiom that a
\* probabilistic rule of the rule set matches.
C3_Witness ==
    \E e \in Engines :
        /\ pc[e] = "done"
        /\ iteration_depth[e] = 0
        /\ rules[e] = <<"A : 1 -> B", "A : 3 -> C">>
        /\ axiom[e] = <<Mod("A"), Mod("A")>>
        /\ module_string[e] = axiom[e]

\* C4: a module at a position where no rule matches is appended to the new
\* sequence unchanged, as exactly one module.
C4_NoMatchIdentity ==
    [][\A e \in Engines :
        (/\ pc[e] = "position"
         /\ position[e] < Len(module_string[e])
         /\ \A k \in DOMAIN rules[e] :
                Matches(rules[e][k], ContextAt(e)) = "false")
        => /\ new_module_string'[e] =
                 Append(new_module_string[e],
                        module_string[e][position[e] + 1])
           /\ position'[e] = position[e] + 1
           /\ pc'[e] = "position"]_vars

\* C4 witness: an annotated module that no rule of a non-empty rule set
\* matches has been copied, annotation included, next to a rewritten one.
C4_Witness ==
    \E e \in Engines :
        /\ pc[e] = "position"
        /\ rules[e] = <<"B -> A">>
        /\ position[e] = 2
        /\ module_string[e][2] = Module("A", <<>>, CreatePatch)
        /\ new_module_string[e] = <<Mod("A"), Module("A", <<>>, CreatePatch)>>

\* Module number i (from 1) of ms is the parameterless module id.
Holds(ms, i, id) ==
    /\ i \in DOMAIN ms
    /\ ms[i].identifier = id
    /\ ms[i].parameter_values = <<>>

\* C5: with the single rule "A < B > C -> D", the B at a position is
\* rewritten to D iff A is immediately before it and C immediately after
\* it; every other module, and every B with other or missing neighbours, is
\* copied unchanged.
C5_ContextSensitivity ==
    \A e \in Engines :
        (rules[e] = <<"A < B > C -> D">> /\ pc[e] = "position")
        => /\ Len(new_module_string[e]) = position[e]
           /\ \A i \in 1..position[e] :
                new_module_string[e][i] =
                    IF /\ Holds(module_string[e], i, "B")
                       /\ Holds(module_string[e], i - 1, "A")
                       /\ Holds(module_string[e], i + 1, "C")
                    THEN Mod("D")
                    ELSE module_string[e][i]

\* C5 witness: of the two B of A B C B C, the one between A and C has
\* become D and the one between C and C has been copied.
C5_Witness ==
    \E e \in Engines :
        /\ rules[e] = <<"A < B > C -> D">>
        /\ pc[e] = "position"
        /\ module_string[e] =
               <<Mod("A"), Mod("B"), Mod("C"), Mod("B"), Mod("C")>>
        /\ new_module_string[e] =
               <<Mod("A"), Mod("D"), Mod("C"), Mod("B"), Mod("C")>>

GuardRules == <<"A(x) : x < 5 -> A(x+1)", "A(x) : * -> B(x)">>

\* What one generation of GuardRules makes of a module, as C6 states it.
GuardStep(m) ==
    IF m.identifier = "A" /\ Len(m.parameter_values) = 1
    THEN IF m.parameter_values[1] < 5
         THEN ModP("A", <<m.parameter_values[1] + 1>>)
         ELSE ModP("B", <<m.parameter_values[1]>>)
    ELSE m

\* C6: with the rules "A(x) : x < 5 -> A(x+1)" and "A(x) : * -> B(x)", each
\* generation rewrites A(v) to A(v+1) if v < 5 and to B(v) if v >= 5, and
\* leaves B(v) as it is; from axiom A(0) the sequence is A(n) after n <= 5
\* generations and B(5) after 6 or more.
C6_GuardGating ==
    \A e \in Engines :
        rules[e] = GuardRules
        => /\ pc[e] = "position"
              => /\ Len(new_module_string[e]) = position[e]
                 /\ \A i \in 1..position[e] :
                      new_module_string[e][i] = GuardStep(module_string[e][i])
           /\ (pc[e] \in {"generation", "done"}
               /\ axiom[e] = <<ModP("A", <<0>>)>>)
              => module_string[e] =
                    IF generation[e] <= 5
                    THEN <<ModP("A", <<generation[e]>>)>>
                    ELSE <<ModP("B", <<5>>)>>

\* C6 witness: from A(0), iterate() has returned after 7 generations with
\* B(5), which the 7th generation copied.
C6_Witness ==
    \E e \in Engines :
        /\ rules[e] = GuardRules
        /\ axiom[e] = <<ModP("A", <<0>>)>>
        /\ pc[e] = "done"
        /\ generation[e] = 7
        /\ module_string[e] = <<ModP("B", <<5>>)>>
        /\ new_module_string[e] = <<ModP("B", <<5>>)>>

\* C7: with axiom A(0) and the single rule "A(x) -> A(x+1)", the sequence
\* after n generations is the one module A(n), so iterate() with depth N
\* ends with A(N).
C7_ParameterPropagation ==
    \A e \in Engines :
        (/\ rules[e] = <<"A(x) -> A(x+1)">>
         /\ axiom[e] = <<ModP("A", <<0>>)>>)
        => /\ pc[e] \in {"generation", "done"}
              => module_string[e] = <<ModP("A", <<generation[e]>>)>>
           /\ pc[e] = "done"
              => module_string[e] = <<ModP("A", <<iteration_depth[e]>>)>>

\* C7 witness: iterate() with depth 5 has returned with A(5).
C7_Witness ==
    \E e \in Engines :
        /\ rules[e] = <<"A(x) -> A(x+1)">>
        /\ axiom[e] = <<ModP("A", <<0>>)>>
        /\ pc[e] = "done"
        /\ iteration_depth[e] = 5
        /\ module_string[e] = <<ModP("A", <<5>>)>>

\* The length a Fibonacci-like growth from lengths 1 and 2 gives.
RECURSIVE FibonacciLength(_)
FibonacciLength(n) ==
    IF n = 0 THEN 1
    ELSE IF n = 1 THEN 2
    ELSE FibonacciLength(n - 1) + FibonacciLength(n - 2)

\* n copies of module m.
Copies(n, m) == [k \in 1..n |-> m]

\* C8 as stated: with axiom A and the single rule "A -> AB", the sequence
\* after one generation is A B, and up to depth 3 the length at each depth is
\* the sum of the lengths at the two depths before.
C8_FibonacciGrowth ==
    \A e \in Engines :
        (/\ rules[e] = <<"A -> AB">>
         /\ axiom[e] = <<Mod("A")>>
         /\ pc[e] \in {"generation", "done"})
        => /\ generation[e] = 1
              => module_string[e] = <<Mod("A"), Mod("B")>>
           /\ generation[e] \in 2..3
              => Len(module_string[e]) = FibonacciLength(generation[e])

\* C8 amended: with axiom A and the single rule "A -> AB", the sequence
\* after n generations is A followed by n B (A B after one generation), so
\* its length is n + 1, for every seed.
C8_LinearGrowth ==
    \A e \in Engines :
        (/\ rules[e] = <<"A -> AB">>
         /\ axiom[e] = <<Mod("A")>>
         /\ pc[e] \in {"generation", "done"})
        => module_string[e] = <<Mod("A")>> \o Copies(generation[e], Mod("B"))

\* C8 witness: iterate() with depth 3 has returned with A B B B.
C8_Witness ==
    \E e \in Engines :
        /\ rules[e] = <<"A -> AB">>
        /\ axiom[e] = <<Mod("A")>>
        /\ pc[e] = "done"
        /\ iteration_depth[e] = 3
        /\ module_string[e] = <<Mod("A"), Mod("B"), Mod("B"), Mod("B")>>

\* The sampler was built over non-negative weights.
NonNegativeWeights == \A k \in DOMAIN wc_weights : wc_weights[k] >= 0

\* C9 as stated: for a non-empty weight list with positive total and a draw
\* in [0, total), sample returns the item at the smallest index whose
\* cumulative weight is >= the draw.
C9_FirstAtLeastDraw ==
    (wc_pc = "returned" /\ TotalWeight(wc_weights) > 0)
    => wc_result + 1 =
          Least({k \in DOMAIN wc_items : wc_items[k] >= wc_draw})

\* C9 amended: for a non-empty list of non-negative weights with positive
\* total and a draw in [0, total), sample returns the item at the smallest
\* index whose cumulative weight is strictly greater than the draw; when
\* several items share that cumulative weight the earliest one is returned.
C9_FirstAboveDraw ==
    (/\ wc_pc \in {"returned", "panicked"}
     /\ NonNegativeWeights
     /\ Len(wc_weights) > 0
     /\ TotalWeight(wc_weights) > 0)
    => /\ wc_pc = "returned"
       /\ wc_draw \in UniformRange(TotalWeight(wc_weights))
       /\ wc_result + 1 =
             Least({k \in DOMAIN wc_items : wc_items[k] > wc_draw})

\* C9 witness: the loop has returned an item for a draw equal to an earlier
\* item's cumulative weight, and a later item shares the returned item's
\* cumulative weight.
C9_Witness ==
    /\ wc_pc = "returned"
    /\ NonNegativeWeights
    /\ wc_search.idx > 0
    /\ \E k \in DOMAIN wc_items : wc_items[k] = wc_draw
    /\ wc_result + 2 \in DOMAIN wc_items
    /\ wc_items[wc_result + 2] = wc_items[wc_result + 1]

\* The rules matching at the position engine e is at are all probabilistic
\* with weight 0 (and there is one).
AllMatchesWeightZero(e) ==
    LET matching == { k \in DOMAIN rules[e] :
                        Matches(rules[e][k], ContextAt(e)) = "true" }
    IN  /\ matching # {}
        /\ \A k \in matching : ParseRule(rules[e][k]).probability = 0

\* C10: no sampler is built over weights whose total is zero or negative
\* (WeightedChoice::new aborts, and no draw is made); and iterate() aborts,
\* without drawing, at a position whose matching rules are all
\* probabilistic with weight 0.
C10_ZeroTotalAborts ==
    /\ [](TotalWeight(wc_weights) <= 0
          => /\ wc_pc \in {"off", "start", "panicked"}
             /\ wc_draw = 0
             /\ wc_result = -1)
    /\ [][\A e \in Engines :
            (/\ pc[e] = "position"
             /\ position[e] < Len(module_string[e])
             /\ AllMatchesWeightZero(e))
            => /\ pc'[e] = "panicked"
               /\ rng'[e] = rng[e]
               /\ new_module_string'[e] = new_module_string[e]]_vars

\* C10 witness: iterate() has panicked, without a draw, at the second
\* position, where the two rules of weight 0 match.
C10_Witness ==
    \E e \in Engines :
        /\ pc[e] = "panicked"
        /\ rules[e] = <<"A : 0 -> D", "A : 0 -> C">>
        /\ position[e] = 1
        /\ AllMatchesWeightZero(e)
        /\ rng[e].draws = 0

\* The parameter names an arithmetic or boolean expression references.
RECURSIVE ArithParams(_)
ArithParams(e) ==
    CASE e[1] = "Const" -> {}
      [] e[1] = "Param" -> {e[2]}
      [] e[1] = "Neg" -> ArithParams(e[2])
      [] OTHER -> ArithParams(e[2]) \cup ArithParams(e[3])

RECURSIVE BoolParams(_)
BoolParams(e) ==
    CASE e[1] = "BConst" -> {}
      [] e[1] = "Not" -> BoolParams(e[2])
      [] e[1] \in {"And", "Or"} -> BoolParams(e[2]) \cup BoolParams(e[3])
      [] OTHER -> ArithParams(e[2]) \cup ArithParams(e[3])

\* The names the signatures of an optional side, and of a pattern, declare.
SideParams(match_side) ==
    IF match_side = None THEN {}
    ELSE { match_side[1].parameters[k] :
             k \in DOMAIN match_side[1].parameters }

DeclaredParams(pattern) ==
    SideParams(pattern.match_left) \cup SideParams(pattern.match_right)
        \cup SideParams(Some(pattern.match_center))

\* The names a template, and the templates of a rule, reference.
ExpressionParams(template) ==
    UNION { ArithParams(template.parameter_expressions[j]) :
              j \in DOMAIN template.parameter_expressions }

TemplateParams(rule) ==
    UNION { ExpressionParams(rule.right_side[k]) :
              k \in DOMAIN rule.right_side }

\* A module has the identifier and the parameter count of a signature.
SameShape(signature, module) ==
    /\ signature.identifier = module.identifier
    /\ Len(signature.parameters) = Len(module.parameter_values)

SideShape(match_side, side) ==
    match_side # None => (side # None /\ SameShape(match_side[1], side[1]))

\* The context has the shape the pattern asks for: the center and every
\* neighbour the pattern names are there with equal identifier and arity.
ShapeMatches(pattern, context) ==
    /\ SameShape(pattern.match_center, context.center)
    /\ SideShape(pattern.match_left, context.left)
    /\ SideShape(pattern.match_right, context.right)

\* Engine e is about to run the body of the position loop.
AtPosition(e) ==
    /\ pc[e] = "position"
    /\ position[e] < Len(module_string[e])

\* iterate() of engine e aborts in this step, and nothing is written.
Aborts(e) ==
    /\ pc'[e] = "panicked"
    /\ module_string'[e] = module_string[e]
    /\ new_module_string'[e] = new_module_string[e]

\* The rule chosen at the position engine e is at ("" when none is: no
\* rule matches, or matching or the sampler panics).
ChosenAt(e) ==
    LET matching == MatchingRules(rules[e], ContextAt(e))
    IN  IF MatchingPanics(rules[e], ContextAt(e)) \/ matching = <<>>
        THEN ""
        ELSE ChooseMatch(matching, rng[e]).rule

\* The chosen rule's templates reference a name its pattern does not
\* declare.
TemplateUnbound(e) ==
    /\ ChosenAt(e) # ""
    /\ ~(TemplateParams(ParseRule(ChosenAt(e)))
            \subseteq DeclaredParams(ParseRule(ChosenAt(e)).pattern))

\* Some rule whose shape matches has a guard that references a name its
\* pattern does not declare.
GuardUnbound(e) ==
    \E k \in DOMAIN rules[e] :
        LET rule == ParseRule(rules[e][k])
        IN  /\ ShapeMatches(rule.pattern, ContextAt(e))
            /\ ~(BoolParams(rule.pattern.condition) \subseteq
                    DeclaredParams(rule.pattern))

\* The names whose references the evaluation of a guard reaches: the right
\* operand of And is reached when the left one is true, that of Or when the
\* left one is false.
RECURSIVE ReachedParams(_, _)
ReachedParams(e, env) ==
    CASE e[1] = "BConst" -> {}
      [] e[1] = "Not" -> ReachedParams(e[2], env)
      [] e[1] = "And" ->
           ReachedParams(e[2], env) \cup
           (IF BoolEval(e[2], env) = "true"
            THEN ReachedParams(e[3], env) ELSE {})
      [] e[1] = "Or" ->
           ReachedParams(e[2], env) \cup
           (IF BoolEval(e[2], env) = "false"
            THEN ReachedParams(e[3], env) ELSE {})
      [] OTHER -> ArithParams(e[2]) \cup ArithParams(e[3])

\* Some rule whose shape matches has a guard whose evaluation reaches a
\* reference to a name its pattern does not declare.
GuardReachesUnbound(e) ==
    \E k \in DOMAIN rules[e] :
        LET rule == ParseRule(rules[e][k])
        IN  /\ ShapeMatches(rule.pattern, ContextAt(e))
            /\ ~(ReachedParams(rule.pattern.condition,
                                bind(rule.pattern, ContextAt(e)))
                    \subseteq DeclaredParams(rule.pattern))

\* C11 as stated: iterate() aborts, and writes nothing, at every position
\* where the guard of a rule whose shape matches, or a template of the
\* chosen rule, references a parameter that no signature of the rule's
\* pattern declares.
C11_UnboundReferenceAborts ==
    [][\A e \in Engines :
        (AtPosition(e) /\ (GuardUnbound(e) \/ TemplateUnbound(e)))
        => Aborts(e)]_vars

\* C11 amended: iterate() aborts, and writes nothing, at every position
\* where the evaluation of the guard of a rule whose shape matches reaches
\* a reference to a parameter that no signature of the pattern declares
\* (the right operand of && is evaluated only when the left one is true,
\* that of || only when the left one is false), or where a template of the
\* chosen rule references such a parameter.
C11_ReachedUnboundReferenceAborts ==
    [][\A e \in Engines :
        (AtPosition(e) /\ (GuardReachesUnbound(e) \/ TemplateUnbound(e)))
        => Aborts(e)]_vars

\* C11 witness: iterate() has aborted at the second position, where x = 4
\* makes the guard x < 5 && y < 1 evaluate the undeclared y; the first
\* position's copy is all that was written.
C11_Witness ==
    \E e \in Engines :
        /\ pc[e] = "panicked"
        /\ rules[e] = <<"A(x) : x < 5 && y < 1 -> B(x)">>
        /\ module_string[e] = <<ModP("B", <<2>>), ModP("A", <<4>>)>>
        /\ position[e] = 1
        /\ GuardReachesUnbound(e)
        /\ new_module_string[e] = <<ModP("B", <<2>>)>>

\* The names of a pattern's signatures, as often as they are declared:
\* center, left, right, the order does_match defines them in.
DeclaredNames(pattern) ==
    pattern.match_center.parameters
        \o (IF pattern.match_left = None THEN <<>>
            ELSE pattern.match_left[1].parameters)
        \o (IF pattern.match_right = None THEN <<>>
            ELSE pattern.match_right[1].parameters)

\* A sequence of names holds one of them twice.
HasDuplicate(names) ==
    \E i, j \in DOMAIN names : i < j /\ names[i] = names[j]

\* C12: a pattern whose signatures declare one parameter name twice, in one
\* signature or in two of left, center and right, neither matches nor fails
\* to match a context of matching shape: does_match aborts, and iterate()
\* with it, nothing being written.
C12_RedefinitionAborts ==
    [][\A e \in Engines :
        (/\ AtPosition(e)
         /\ \E k \in DOMAIN rules[e] :
               /\ ShapeMatches(ParseRule(rules[e][k]).pattern, ContextAt(e))
               /\ HasDuplicate(DeclaredNames(ParseRule(rules[e][k]).pattern)))
        => Aborts(e)]_vars

\* C12 witness: iterate() has aborted at the B(2) between A(1) and A(3),
\* where the pattern A(x) < B(y) > A(x) has the shape of the context and x is
\* declared on the left and on the right; the A(1) before it, which the
\* pattern's shape does not fit, was copied.
C12_Witness ==
    \E e \in Engines :
        /\ pc[e] = "panicked"
        /\ rules[e] = <<"A(x) < B(y) > A(x) -> C(y)">>
        /\ module_string[e] =
               <<ModP("A", <<1>>), ModP("B", <<2>>), ModP("A", <<3>>)>>
        /\ position[e] = 1
        /\ new_module_string[e] = <<ModP("A", <<1>>)>>
        /\ Matches(rules[e][1], ContextAt(e)) = "panic"

\* The center module differs from the center signature in identifier or
\* parameter count; a neighbour the pattern asks for is there and differs.
CenterDiffers(pattern, context) ==
    ~SameShape(pattern.match_center, context.center)

SideDiffers(match_side, side) ==
    /\ match_side # None
    /\ side # None
    /\ ~SameShape(match_side[1], side[1])

LeftMissing(e, k) ==
    /\ ParseRule(rules[e][k]).pattern.match_left # None
    /\ position[e] = 0

RightMissing(e, k) ==
    /\ ParseRule(rules[e][k]).pattern.match_right # None
    /\ position[e] = Len(module_string[e]) - 1

\* The signatures does_match compares before it finds the neighbour
\* missing declare no name twice: the center, and for a missing right
\* neighbour the left signature too.
NoRedefinitionBefore(e, k) ==
    LET pattern == ParseRule(rules[e][k]).pattern
        center == pattern.match_center.parameters
        left == IF pattern.match_left = None THEN <<>>
                ELSE pattern.match_left[1].parameters
    IN  \/ LeftMissing(e, k) /\ ~HasDuplicate(center)
        \/ RightMissing(e, k) /\ ~HasDuplicate(center \o left)

\* The step of engine e appends what a matching rule other than k makes of
\* the module, or the module itself when no other rule matches.
RewrittenByAnotherOrCopied(e, k) ==
    LET others == { j \in DOMAIN rules[e] \ {k} :
                      Matches(rules[e][j], ContextAt(e)) = "true" }
    IN  /\ position'[e] = position[e] + 1
        /\ pc'[e] = "position"
        /\ IF others = {}
           THEN new_module_string'[e] =
                    Append(new_module_string[e],
                           module_string[e][position[e] + 1])
           ELSE \E j \in others :
                    new_module_string'[e] =
                        new_module_string[e] \o
                        Instance(rules[e][j], ContextAt(e))

\* The position is left to the rules other than k: the module is rewritten
\* by one of them or copied, and the step aborts only if one of them matches
\* or is fatal to match.
LeftToOtherRules(e, k) ==
    \/ RewrittenByAnotherOrCopied(e, k)
    \/ /\ Aborts(e)
       /\ \E j \in DOMAIN rules[e] \ {k} :
             Matches(rules[e][j], ContextAt(e)) \in {"true", "panic"}

C15_FailedParseProceeds ==
    \A e \in Engines :
        (axiom[e] = <<>> \/ rules[e] = <<>>)
        => /\ pc[e] # "panicked"
           /\ pc[e] \in {"generation", "position", "done"}
              => module_string[e] = axiom[e]
           /\ pc[e] = "position"
              => new_module_string[e] =
                    SubSeq(module_string[e], 1, position[e])

\* C15 witness: iterate() has returned the empty sequence after two or
\* more generations over the empty axiom, with a rule list whose only rule
\* would be fatal to match.
C15_Witness ==
    \E e \in Engines :
        /\ pc[e] = "done"
        /\ axiom[e] = <<>>
        /\ rules[e] = <<"A(x,x) -> B(x)">>
        /\ iteration_depth[e] >= 2
        /\ generation[e] = iteration_depth[e]
        /\ module_string[e] = <<>>

\* Rule k of engine e has a guard And(l, r) or Or(l, r), and its pattern,
\* which declares no name twice, has the shape of the context: does_match
\* returns what the guard evaluates to.
ConnectiveGuardEvaluated(e, k) ==
    LET pattern == ParseRule(rules[e][k]).pattern
    IN  /\ pattern.condition[1] \in {"And", "Or"}
        /\ ShapeMatches(pattern, ContextAt(e))
        /\ ~HasDuplicate(DeclaredNames(pattern))

\* The outcome of And(l, r) or Or(l, r) when both operands are evaluated:
\* fatal if either is, else their conjunction or disjunction.
BothOperands(cond, env) ==
    LET v == BoolEval(cond[2], env)
        w == BoolEval(cond[3], env)
    IN  IF v = "panic" \/ w = "panic" THEN "panic"
        ELSE IF cond[1] = "And" THEN BoolResult(v = "true" /\ w = "true")
        ELSE BoolResult(v = "true" \/ w = "true")

\* The outcome when the left operand is evaluated first and the right one
\* only if the left one does not decide: And(false, r) is false, Or(true, r)
\* is true, a fatal left operand is fatal, else the outcome is r's.
LeftOperandFirst(cond, env) ==
    LET v == BoolEval(cond[2], env)
    IN  IF v = "panic" THEN "panic"
        ELSE IF cond[1] = "And" /\ v = "false" THEN "false"
        ELSE IF cond[1] = "Or" /\ v = "true" THEN "true"
        ELSE BoolEval(cond[3], env)

RECURSIVE LinearScan(_, _, _)
LinearScan(items, d, k) ==
    IF k > Len(items) THEN -1
    ELSE IF d < items[k] THEN k - 1
    ELSE LinearScan(items, d, k + 1)

\* C17: for a non-empty list of non-negative weights with positive total
\* and a draw in [0, total), sample does not abort, every index its loop
\* reads (idx + modifier/2) and the index it returns from (idx + 1) are
\* below the length of the list, and the item returned is the one a linear
\* scan for the first cumulative weight above the draw finds.
C17_BinarySearchIsLinearScan ==
    (/\ NonNegativeWeights
     /\ Len(wc_weights) > 0
     /\ TotalWeight(wc_weights) > 0)
    => /\ wc_pc # "panicked"
       /\ wc_pc = "searching"
          => /\ ~wc_search.oob
             /\ wc_search.idx + (wc_search.modifier \div 2) < Len(wc_items)
             /\ wc_search.modifier <= 1
                => wc_search.idx + 1 < Len(wc_items)
       /\ wc_pc = "returned"
          => /\ wc_draw \in UniformRange(TotalWeight(wc_weights))
             /\ wc_result = LinearScan(wc_items, wc_draw, 1)

\* C17 witness: over a list of MaxItems weights the loop has run to the
\* last but one index and sample has returned the last item, which is the
\* item the linear scan finds.
C17_Witness ==
    /\ wc_pc = "returned"
    /\ NonNegativeWeights
    /\ Len(wc_items) = MaxItems
    /\ wc_search.idx = MaxItems - 2
    /\ wc_result = MaxItems - 1
    /\ wc_result = LinearScan(wc_items, wc_draw, 1)

\* At the position engine e is at, the set of matching rules is formed (no
\* rule is fatal to match), is not empty and holds no deterministic rule.
OnlyProbabilisticMatches(e) ==
    /\ AtPosition(e)
    /\ \A k \in DOMAIN rules[e] :
          Matches(rules[e][k], ContextAt(e)) # "panic"
    /\ ProbabilisticIndices(rules[e], ContextAt(e)) # {}
    /\ DeterministicIndices(rules[e], ContextAt(e)) = {}

\* The sum of the weights of the rules matching where engine e is.
MatchingWeight(e) ==
    TotalWeight(RuleWeights(MatchingRules(rules[e], ContextAt(e))))

\* The step of engine e takes the next value of its random source, and no
\* more; the step, or engine e outside iterate()'s loops, takes none.
OneDraw(e) == rng'[e] = RngAdvance(rng[e])

NoDraw(e) == rng'[e] = rng[e]

\* C18 as stated: inside iterate() the random source is advanced exactly
\* once by the pass of each position where rules match and none of them is
\* deterministic, and by nothing else: not by a position with no match or
\* with a deterministic match, nor between positions or generations, so the
\* draws follow the order of the positions.
C18_OneDrawPerProbabilisticPosition ==
    [][\A e \in Engines :
        pc[e] \in {"generation", "position"}
        => IF OnlyProbabilisticMatches(e) THEN OneDraw(e) ELSE NoDraw(e)]_vars

\* C18 amended: inside iterate() the random source is advanced exactly once
\* by the pass of each position where rules match, none of them is
\* deterministic and their weights have a positive total (also when only
\* one probabilistic rule matches), and by nothing else: not by a position
\* whose matching rules all have weight 0, where iterate() aborts, nor by a
\* position with no match or with a deterministic match, nor between
\* positions or generations, so the draws follow the order of the
\* positions.
C18_OneDrawPerWeightedPosition ==
    [][\A e \in Engines :
        pc[e] \in {"generation", "position"}
        => IF OnlyProbabilisticMatches(e) /\ MatchingWeight(e) > 0
           THEN OneDraw(e)
           ELSE NoDraw(e)]_vars

\* C18 witness: the first generation over A B with the single rule
\* A : 1 -> B has passed both positions; the only draw since the seed was
\* set was made at the A, none at the B that no rule matches.
C18_Witness ==
    \E e \in Engines :
        /\ pc[e] = "position"
        /\ rules[e] = <<"A : 1 -> B">>
        /\ module_string[e] = <<Mod("A"), Mod("B")>>
        /\ calls[e] = 1
        /\ generation[e] = 0
        /\ position[e] = 2
        /\ new_module_string[e] = <<Mod("B"), Mod("B")>>
        /\ rng[e].draws = 1

\* C19: a second call of iterate() on an engine, the seed set once before
\* the first call, ends with the module sequence the first call ended
\* with.  Of two engines with the same seed, rules, axiom and depth, engine
\* 1 holds the result of its first call, which is also the result of engine
\* 2's first call (C2), and engine 2 the result of its second call.
C19_SecondCallSameResult ==
    (/\ Engines = {1, 2}
     /\ pc[1] = "done"
     /\ calls[1] = 1
     /\ pc[2] = "done"
     /\ calls[2] = 2)
    => module_string[2] = module_string[1]

\* The context of module number i (from 1) of the previous generation's
\* sequence prev: the module, the one before it unless it is the first,
\* the one after it unless it is the last.
SnapshotContext(prev, i) ==
    [left |-> IF i > 1 THEN <<prev[i - 1]>> ELSE <<>>,
     center |-> prev[i],
     right |-> IF i < Len(prev) THEN <<prev[i + 1]>> ELSE <<>>]

\* The modules the templates of a rule give, in right-hand-side order,
\* with the pattern's names bound to the values of the context.
TemplatesInOrder(rule, context) ==
    [j \in 1..Len(rule.right_side) |->
        instantiate(rule.right_side[j], bind(rule.pattern, context))]

\* out is a replacement of module number i of prev: the module itself when
\* no rule matches its snapshot context, else the templates of a rule that
\* matches it.
IsReplacement(out, rs, prev, i) ==
    LET matching == { k \in DOMAIN rs :
                        does_match(ParseRule(rs[k]).pattern,
                                   SnapshotContext(prev, i)) = "true" }
    IN  IF matching = {} THEN out = <<prev[i]>>
        ELSE \E k \in matching :
                out = TemplatesInOrder(ParseRule(rs[k]),
                                       SnapshotContext(prev, i))

\* C20: while a generation is computed the previous sequence is not
\* written; the pass of position i appends, after what the earlier
\* positions appended, a replacement of prev[i] made from the context
\* (prev[i-1], prev[i], prev[i+1]) of the previous sequence, with the
\* templates in right-hand-side order; and the sequence so concatenated
\* becomes the next generation's.
C20_SnapshotConcatenation ==
    [][\A e \in Engines :
        /\ (pc[e] = "position" /\ pc'[e] # "generation")
           => module_string'[e] = module_string[e]
        /\ (pc[e] = "generation" /\ pc'[e] = "position")
           => new_module_string'[e] = <<>> /\ position'[e] = 0
        /\ RewriteStep(e)
           => LET out == SubSeq(new_module_string'[e],
                                Len(new_module_string[e]) + 1,
                                Len(new_module_string'[e]))
              IN  /\ new_module_string'[e] = new_module_string[e] \o out
                  /\ IsReplacement(out, rules[e], module_string[e],
                                   position[e] + 1)
        /\ (pc[e] = "position" /\ pc'[e] = "generation")
           => /\ position[e] = Len(module_string[e])
              /\ module_string'[e] = new_module_string[e]]_vars

\* C20 witness: in A(1) A(1), with A(x) < A(y) -> B(x+y) before
\* A(x) -> A(x+1), the first module became A(2) and the second one B(2): its
\* left neighbour was the previous generation's A(1), not the A(2) written
\* for it.
C20_Witness ==
    \E e \in Engines :
        /\ pc[e] = "position"
        /\ rules[e] = <<"A(x) < A(y) -> B(x+y)", "A(x) -> A(x+1)">>
        /\ module_string[e] = <<ModP("A", <<1>>), ModP("A", <<1>>)>>
        /\ position[e] = 2
        /\ new_module_string[e] = <<ModP("A", <<2>>), ModP("B", <<2>>)>>

\* C21: no position is rewritten to nothing (the pass of a position
\* appends at least one module, every rule having at least one template),
\* and the sequence a generation ends with is at least as long as the one it
\* began with.
C21_NeverShrinks ==
    [][\A e \in Engines :
        /\ RewriteStep(e)
           => Len(new_module_string'[e]) >= Len(new_module_string[e]) + 1
        /\ (pc[e] = "position" /\ pc'[e] = "generation")
           => Len(module_string'[e]) >= Len(module_string[e])]_vars

\* Matching the pattern against a context of its shape is fatal: a name is
\* declared twice, or the guard's evaluation reaches a name that is not
\* declared.
FatalToMatch(pattern, context) ==
    \/ HasDuplicate(DeclaredNames(pattern))
    \/ ~(ReachedParams(pattern.condition, bind(pattern, context))
            \subseteq DeclaredParams(pattern))

\* The pattern with its guard replaced by the constant true.
WithoutGuard(pattern) ==
    [pattern EXCEPT !.condition = <<"BConst", TRUE>>]

\* C22: at each position every rule is matched, whatever matched before
\* it: iterate() aborts, writing nothing, when any rule whose signatures
\* have the shape of the context is fatal to match (a redefined name, or an
\* undeclared name reached in its guard), also when a deterministic rule
\* defined earlier matches; and a rule whose signatures do not have the
\* shape of the context does not match and its guard has no part in the
\* outcome.
C22_EveryRuleMatched ==
    [][\A e \in Engines :
        AtPosition(e)
        => \A k \in DOMAIN rules[e] :
              LET pattern == ParseRule(rules[e][k]).pattern
              IN  /\ (/\ ShapeMatches(pattern, ContextAt(e))
                      /\ FatalToMatch(pattern, ContextAt(e)))
                     => Aborts(e)
                  /\ ~ShapeMatches(pattern, ContextAt(e))
                     => /\ Matches(rules[e][k], ContextAt(e)) # "true"
                        /\ Matches(rules[e][k], ContextAt(e)) =
                              does_match(WithoutGuard(pattern),
                                         ContextAt(e))]_vars

\* C22 witness: iterate() has aborted at A(0), where the deterministic rule
\* A(x) : * -> B(x) matches and the rule defined after it, whose guard
\* y < 1 references the undeclared y, is fatal to match.
C22_Witness ==
    \E e \in Engines :
        /\ pc[e] = "panicked"
        /\ rules[e] = <<"A(x) : * -> B(x)", "A(x) : y < 1 -> B(x)">>
        /\ module_string[e] = <<ModP("A", <<0>>)>>
        /\ position[e] = 0
        /\ new_module_string[e] = <<>>
        /\ Matches(rules[e][1], ContextAt(e)) = "true"
        /\ is_deterministic(ParseRule(rules[e][1]))
        /\ FatalToMatch(ParseRule(rules[e][2]).pattern, ContextAt(e))

\* C23: a sampler over non-negative weights with a positive total returns,
\* for every draw in [0, total), an item of the list whose own weight is
\* positive; and at a position where only probabilistic rules match, with a
\* positive total weight, the rule applied is one of the matching rules and
\* has a positive weight.
C23_ZeroWeightNeverApplied ==
    /\ []((wc_pc = "returned" /\ NonNegativeWeights)
          => /\ wc_result + 1 \in DOMAIN wc_weights
             /\ wc_weights[wc_result + 1] > 0)
    /\ [][\A e \in Engines :
            (OnlyProbabilisticMatches(e) /\ MatchingWeight(e) > 0)
            => /\ ChosenAt(e) # ""
               /\ ParseRule(ChosenAt(e)).probability > 0
               /\ \E k \in ProbabilisticIndices(rules[e], ContextAt(e)) :
                     /\ ParseRule(rules[e][k]).probability > 0
                     /\ new_module_string'[e] =
                           new_module_string[e] \o
                           Instance(rules[e][k], ContextAt(e))]_vars

\* C23 witness: in A A, where the rules of weight 1, 0 and 3 all match both
\* modules, two draws have applied the rules of weight 1 and 3, one each,
\* and not the rule of weight 0, whose template is D.
C23_Witness ==
    \E e \in Engines :
        /\ pc[e] = "position"
        /\ rules[e] = <<"A : 1 -> B", "A : 0 -> D", "A : 3 -> C">>
        /\ module_string[e] = <<Mod("A"), Mod("A")>>
        /\ position[e] = 2
        /\ rng[e].draws >= 2
        /\ {new_module_string[e][1], new_module_string[e][2]}
               = {Mod("B"), Mod("C")}

\* The environment does_match evaluates the guard in: the parameters of
\* the center, then of the left and of the right neighbour the pattern asks
\* for.
GuardEnvironment(pattern, context) ==
    LET center == extract_parameters(pattern.match_center, context.center,
                                     EmptyEnv)
        left == MatchSide(pattern.match_left, context.left, center).env
    IN  MatchSide(pattern.match_right, context.right, left).env

\* env binds each name of the signature to the module's value at the same
\* index.
BoundPositionally(env, signature, module) ==
    \A j \in DOMAIN signature.parameters :
        /\ signature.parameters[j] \in DOMAIN env.parameter_map
        /\ env.parameter_map[signature.parameters[j]] =
              module.parameter_values[j]

SideBoundPositionally(env, match_side, side) ==
    match_side # None
    => (side # None /\ BoundPositionally(env, match_side[1], side[1]))

\* C24: for every rule that matches the context of a position, bind does
\* not fail and returns the environment the guard was evaluated in: the
\* names of the center signature and of each left or right signature the
\* pattern has, each bound to the value at the same index of its module, and
\* no other name; and the rule iterate() binds is one that matched.
C24_BindIsGuardEnvironment ==
    \A e \in Engines :
        AtPosition(e)
        => /\ \A k \in DOMAIN rules[e] :
                 Matches(rules[e][k], ContextAt(e)) = "true"
                 => LET pattern == ParseRule(rules[e][k]).pattern
                        env == bind(pattern, ContextAt(e))
                    IN  /\ env.ok
                        /\ env = GuardEnvironment(pattern, ContextAt(e))
                        /\ DOMAIN env.parameter_map = DeclaredParams(pattern)
                        /\ BoundPositionally(env, pattern.match_center,
                                             ContextAt(e).center)
                        /\ SideBoundPositionally(env, pattern.match_left,
                                                 ContextAt(e).left)
                        /\ SideBoundPositionally(env, pattern.match_right,
                                                 ContextAt(e).right)
           /\ ChosenAt(e) # ""
              => /\ Matches(ChosenAt(e), ContextAt(e)) = "true"
                 /\ bind(ParseRule(ChosenAt(e)).pattern, ContextAt(e)).ok

\* C24 witness: in A(1) A(2) A(3) the rule A(x) < A(y) -> B(x+y) matched the
\* second module, bind gave x = 1 from the left neighbour and y = 2 from the
\* center, and B(3) was appended.
C24_Witness ==
    \E e \in Engines :
        /\ pc[e] = "position"
        /\ rules[e] = <<"A(x) < A(y) -> B(x+y)">>
        /\ module_string[e] =
               <<ModP("A", <<1>>), ModP("A", <<2>>), ModP("A", <<3>>)>>
        /\ position[e] = 2
        /\ new_module_string[e] = <<ModP("A", <<1>>), ModP("B", <<3>>)>>
        /\ bind(ParseRule(rules[e][1]).pattern,
                BuildContext(module_string[e], 1)).parameter_map
               = [n \in {"x", "y"} |-> IF n = "x" THEN 1 ELSE 2]

====
